---- MODULE Spec2Model ----
(***************************************************************************)
(* Model of the board of markcol/board100 (src/src/lib.rs): a square grid  *)
(* of u8 labels, the cursor, the move-legality rule, the terminal-state    *)
(* queries and the two placing operations start_at and next_move, which    *)
(* both return a new board (a clone) and leave the receiver untouched.     *)
(***************************************************************************)
EXTENDS Integers, Sequences, FiniteSets, TLC

VARIABLES board, ret

vars == <<board, ret>>

(***************************************************************************)
(* Program constants.                                                      *)
(***************************************************************************)
HV_OFFSET == 3
DIAG_OFFSET == 2
MIN_SIZE == 5
MAX_SIZE == 16
U8_MOD == 256

(* The game of tests::win_5: a board of size 5 started at (0,0). *)
TestSize == 5
TestStartX == 0
TestStartY == 0
TestMoves ==
  <<"Right", "Down", "Left",
    "UpRight", "DownRight", "Left",
    "UpRight", "Down", "UpLeft",
    "Right", "DownLeft", "UpLeft",
    "UpRight", "Down", "UpLeft",
    "Down", "UpRight", "DownRight",
    "Up", "Left", "Down",
    "UpRight", "UpLeft", "Right">>

(***************************************************************************)
(* Bounds of the model.                                                    *)
(***************************************************************************)
(* Board::new is called with sizes MIN_SIZE-SizeSlack .. MAX_SIZE+SizeSlack *)
SizeSlack == 2
(* start_at and next_move are explored on boards with fewer than MaxScore  *)
(* labels.                                                                 *)
MaxScore == 2
(* next_move is also explored, to the end of the game, on the boards that  *)
(* follow the game of tests::win_5 up to its last FreeTail moves, which    *)
(* are free.                                                               *)
FreeTail == 20

SizeArgs == (MIN_SIZE - SizeSlack)..(MAX_SIZE + SizeSlack)

(***************************************************************************)
(* Casts.                                                                  *)
(***************************************************************************)
AsU8(n) == n % U8_MOD

(***************************************************************************)
(* Direction and its iteration order.                                      *)
(***************************************************************************)
(* mutant: the directions are listed clockwise from Up *)
DIRECTIONS_Clockwise ==
  <<"Up", "UpRight", "Right", "DownRight", "Down", "DownLeft", "Left", "UpLeft">>

DIRECTIONS ==
  <<"Down", "DownRight", "Right", "UpRight", "Up", "UpLeft", "Left", "DownLeft">>

Direction == {DIRECTIONS[i] : i \in DOMAIN DIRECTIONS}

(***************************************************************************)
(* Board::new                                                              *)
(***************************************************************************)
(* mutant: a size below the minimum is kept *)
ClampSize_NoLower(size) == IF size > MAX_SIZE THEN MAX_SIZE ELSE size

ClampSize(size) ==
  LET s1 == IF size < MIN_SIZE THEN MIN_SIZE ELSE size
  IN  IF s1 > MAX_SIZE THEN MAX_SIZE ELSE s1

BoardNew(size) ==
  LET s == ClampSize(size)
  IN  [size   |-> s,
       cells  |-> s * s,
       values |-> [i \in 0..(s * s - 1) |-> 0],
       x      |-> 0,
       y      |-> 0]

(***************************************************************************)
(* Queries.                                                                *)
(***************************************************************************)
value_at(b, x, y) == b.values[y * b.size + x]

is_started(b) == value_at(b, b.x, b.y) > 0

MaxOf(S) == CHOOSE m \in S : \A n \in S : n <= m

score(b) == MaxOf({b.values[i] : i \in DOMAIN b.values} \cup {0})

None == [some |-> FALSE, x |-> 0, y |-> 0]
Some(x, y) == [some |-> TRUE, x |-> x, y |-> y]

(* mutant: DownRight moves HV_OFFSET down, as in the draft of src/src/main.rs *)
Target_Draft(x, y, dir) ==
  CASE dir = "Down"      -> <<x, y + HV_OFFSET>>
    [] dir = "DownRight" -> <<x + DIAG_OFFSET, y + HV_OFFSET>>
    [] dir = "Right"     -> <<x + HV_OFFSET, y>>
    [] dir = "UpRight"   -> <<x + DIAG_OFFSET, y - DIAG_OFFSET>>
    [] dir = "Up"        -> <<x, y - HV_OFFSET>>
    [] dir = "UpLeft"    -> <<x - DIAG_OFFSET, y - DIAG_OFFSET>>
    [] dir = "Left"      -> <<x - HV_OFFSET, y>>
    [] dir = "DownLeft"  -> <<x - DIAG_OFFSET, y + DIAG_OFFSET>>

(* the match of valid_move: the cell reached from (x, y) in direction dir *)
Target(x, y, dir) ==
  CASE dir = "Down"      -> <<x, y + HV_OFFSET>>
    [] dir = "DownRight" -> <<x + DIAG_OFFSET, y + DIAG_OFFSET>>
    [] dir = "Right"     -> <<x + HV_OFFSET, y>>
    [] dir = "UpRight"   -> <<x + DIAG_OFFSET, y - DIAG_OFFSET>>
    [] dir = "Up"        -> <<x, y - HV_OFFSET>>
    [] dir = "UpLeft"    -> <<x - DIAG_OFFSET, y - DIAG_OFFSET>>
    [] dir = "Left"      -> <<x - HV_OFFSET, y>>
    [] dir = "DownLeft"  -> <<x - DIAG_OFFSET, y + DIAG_OFFSET>>

(* mutant: the target cell is not required to be empty *)
valid_move_NoEmptyCheck(b, dir) ==
  IF is_started(b)
  THEN LET t == Target(b.x, b.y, dir)
           x == t[1]
           y == t[2]
       IN  IF x >= 0 /\ y >= 0 /\ x < b.size /\ y < b.size
           THEN Some(x, y)
           ELSE None
  ELSE None

valid_move(b, dir) ==
  IF is_started(b)
  THEN LET t == Target(b.x, b.y, dir)
           x == t[1]
           y == t[2]
       IN  IF x >= 0 /\ y >= 0 /\ x < b.size /\ y < b.size
              /\ value_at(b, x, y) = 0
           THEN Some(x, y)
           ELSE None
  ELSE None

possible_moves(b) == SelectSeq(DIRECTIONS, LAMBDA d : valid_move(b, d).some)

(* mutant: the check that no cell is empty is dropped *)
is_won_NoEmptyCheck(b) == value_at(b, b.x, b.y) = AsU8(b.cells)

(* mutant: the cursor is compared with one less than the number of cells *)
is_won_OffByOne(b) ==
  /\ value_at(b, b.x, b.y) = AsU8(b.cells - 1)
  /\ ~(\E i \in DOMAIN b.values : b.values[i] = 0)

is_won(b) ==
  /\ value_at(b, b.x, b.y) = AsU8(b.cells)
  /\ ~(\E i \in DOMAIN b.values : b.values[i] = 0)

(* mutant: an unstarted board counts as blocked *)
is_blocked_NoStarted(b) == Len(possible_moves(b)) = 0

(* mutant: a won board does not count as blocked *)
is_blocked_NotWon(b) ==
  is_started(b) /\ Len(possible_moves(b)) = 0 /\ ~is_won(b)

is_blocked(b) == is_started(b) /\ Len(possible_moves(b)) = 0

(***************************************************************************)
(* Results: Ok(board) or Err(BoardError), the error named after the        *)
(* message it carries.                                                     *)
(***************************************************************************)
NoBoard == [size |-> 0, cells |-> 0, values |-> <<>>, x |-> 0, y |-> 0]

Ok(b) == [kind |-> "Ok", err |-> "none", board |-> b]
Err(e) == [kind |-> "Err", err |-> e, board |-> NoBoard]
Panic == [kind |-> "Panic", err |-> "overflow", board |-> NoBoard]

(***************************************************************************)
(* Board::set_value                                                        *)
(***************************************************************************)
(* mutant: the cursor is not moved to the cell that is set *)
set_value_KeepCursor(b, x, y, value) ==
  IF x >= b.size \/ y >= b.size THEN Err("OutOfRange")
  ELSE IF value < 1 THEN Err("NonPositiveValue")
  ELSE IF value <= AsU8(score(b)) THEN Err("ValueAlreadyUsed")
  ELSE IF value > AsU8(b.cells) THEN Err("ValueTooLarge")
  ELSE IF value_at(b, x, y) # 0 THEN Err("CellOccupied")
  ELSE Ok([b EXCEPT !.values[y * b.size + x] = value])

(* mutant: a value that is already used is not refused *)
set_value_NoUsedCheck(b, x, y, value) ==
  IF x >= b.size \/ y >= b.size THEN Err("OutOfRange")
  ELSE IF value < 1 THEN Err("NonPositiveValue")
  ELSE IF value > AsU8(b.cells) THEN Err("ValueTooLarge")
  ELSE IF value_at(b, x, y) # 0 THEN Err("CellOccupied")
  ELSE Ok([b EXCEPT !.x = x, !.y = y, !.values[y * b.size + x] = value])

(* mutant: the board returned is a new board, not a clone of the receiver *)
set_value_Fresh(b, x, y, value) ==
  IF x >= b.size \/ y >= b.size THEN Err("OutOfRange")
  ELSE IF value < 1 THEN Err("NonPositiveValue")
  ELSE IF value <= AsU8(score(b)) THEN Err("ValueAlreadyUsed")
  ELSE IF value > AsU8(b.cells) THEN Err("ValueTooLarge")
  ELSE IF value_at(b, x, y) # 0 THEN Err("CellOccupied")
  ELSE Ok([BoardNew(b.size) EXCEPT !.x = x, !.y = y, !.values[y * b.size + x] = value])

(* mutant: only a value below the score counts as used *)
set_value_StrictUsed(b, x, y, value) ==
  IF x >= b.size \/ y >= b.size THEN Err("OutOfRange")
  ELSE IF value < 1 THEN Err("NonPositiveValue")
  ELSE IF value < AsU8(score(b)) THEN Err("ValueAlreadyUsed")
  ELSE IF value > AsU8(b.cells) THEN Err("ValueTooLarge")
  ELSE IF value_at(b, x, y) # 0 THEN Err("CellOccupied")
  ELSE Ok([b EXCEPT !.x = x, !.y = y, !.values[y * b.size + x] = value])

set_value(b, x, y, value) ==
  IF x >= b.size \/ y >= b.size THEN Err("OutOfRange")
  ELSE IF value < 1 THEN Err("NonPositiveValue")
  ELSE IF value <= AsU8(score(b)) THEN Err("ValueAlreadyUsed")
  ELSE IF value > AsU8(b.cells) THEN Err("ValueTooLarge")
  ELSE IF value_at(b, x, y) # 0 THEN Err("CellOccupied")
  ELSE Ok([b EXCEPT !.x = x, !.y = y, !.values[y * b.size + x] = value])

(***************************************************************************)
(* Board::start_at                                                         *)
(***************************************************************************)
start_at(b, x, y) == set_value(b, x, y, 1)

(***************************************************************************)
(* Board::next_move.  The label is value_at(cursor) + 1 in u8: at 255 the  *)
(* addition panics in a build with overflow checks and wraps to 0 in one   *)
(* without, so the operation has a set of outcomes.                        *)
(***************************************************************************)
(* mutant: the label placed skips one *)
next_move_Skip(b, dir) ==
  IF ~is_started(b) THEN {Err("NotStarted")}
  ELSE LET t == valid_move(b, dir)
           v == value_at(b, b.x, b.y) + 2
       IN  IF t.some
           THEN IF v >= U8_MOD
                THEN {Panic, set_value(b, t.x, t.y, AsU8(v))}
                ELSE {set_value(b, t.x, t.y, v)}
           ELSE {Err("InvalidDirection")}

(* mutant: the board is not required to be started *)
next_move_NoStartCheck(b, dir) ==
  LET t == valid_move(b, dir)
      v == value_at(b, b.x, b.y) + 1
  IN  IF t.some
      THEN IF v >= U8_MOD
           THEN {Panic, set_value(b, t.x, t.y, AsU8(v))}
           ELSE {set_value(b, t.x, t.y, v)}
      ELSE {Err("InvalidDirection")}

next_move(b, dir) ==
  IF ~is_started(b) THEN {Err("NotStarted")}
  ELSE LET t == valid_move(b, dir)
           v == value_at(b, b.x, b.y) + 1
       IN  IF t.some
           THEN IF v >= U8_MOD
                THEN {Panic, set_value(b, t.x, t.y, AsU8(v))}
                ELSE {set_value(b, t.x, t.y, v)}
           ELSE {Err("InvalidDirection")}

(***************************************************************************)
(* The state machine: `board` is the caller's board, `ret` the call the    *)
(* caller has made and the Result it returned, until the caller consumes   *)
(* it (unwraps it into `board`, or drops it).                              *)
(***************************************************************************)
Call(op, arg, res) == [op |-> op, arg |-> arg, res |-> res]

NoRet == Call("none", <<>>, [kind |-> "None", err |-> "none", board |-> NoBoard])

(* the caller holds no unconsumed Result *)
Idle == ret.op \in {"new", "none"}

(* let mut board = Board::new(s) *)
Init ==
  \E s \in SizeArgs :
    /\ board = BoardNew(s)
    /\ ret = Call("new", <<s>>, Ok(BoardNew(s)))

(* the cell that label i of the game of tests::win_5 is placed in *)
RECURSIVE TestCell(_)
TestCell(i) ==
  IF i = 1 THEN <<TestStartX, TestStartY>>
  ELSE LET c == TestCell(i - 1)
       IN  Target(c[1], c[2], TestMoves[i - 1])

TestOpening == Len(TestMoves) - FreeTail

OnTestGame(b) ==
  /\ b.size = TestSize
  /\ is_started(b)
  /\ \A i \in 1..(TestOpening + 1) :
       i <= score(b) => value_at(b, TestCell(i)[1], TestCell(i)[2]) = i

Explored(b) == score(b) < MaxScore \/ OnTestGame(b)

(* mutant: start_at writes the receiver in place, as the draft of         *)
(* src/src/main.rs does                                                    *)
StartAt_InPlace(x, y) ==
  /\ Idle
  /\ ret' = Call("start_at", <<>>, start_at(board, x, y))
  /\ board' = IF ret'.res.kind = "Ok" THEN ret'.res.board ELSE board

(* ret = board.start_at(x, y): the receiver is not written *)
StartAt(x, y) ==
  /\ Idle
  /\ ret' = Call("start_at", <<>>, start_at(board, x, y))
  /\ UNCHANGED board

(* ret = board.next_move(dir): the receiver is not written *)
NextMove(dir) ==
  /\ Idle
  /\ \E r \in next_move(board, dir) : ret' = Call("next_move", <<>>, r)
  /\ UNCHANGED board

(* board = ret.unwrap() *)
Unwrap ==
  /\ ~Idle
  /\ ret.res.kind = "Ok"
  /\ board' = ret.res.board
  /\ ret' = NoRet

(* the caller drops the Result and keeps its board *)
Drop ==
  /\ ~Idle
  /\ ret' = NoRet
  /\ UNCHANGED board

(* the coordinates a caller passes: every cell, and one past each edge *)
StartAtAny ==
  /\ Idle
  /\ score(board) < MaxScore
  /\ \E x \in 0..board.size, y \in 0..board.size : StartAt(x, y)

NextMoveAny ==
  /\ Idle
  /\ Explored(board)
  /\ \E dir \in Direction : NextMove(dir)

Next ==
  \/ StartAtAny
  \/ NextMoveAny
  \/ Unwrap
  \/ Drop

Spec == Init /\ [][Next]_vars

(* a legal move: a call of next_move that returns a board *)
LegalMoveAny ==
  /\ Idle
  /\ Explored(board)
  /\ \E dir \in Direction : NextMove(dir) /\ ret'.res.kind = "Ok"

(* let mut board = Board::new(5), as in tests::win_5 *)
InitPlay ==
  /\ board = BoardNew(TestSize)
  /\ ret = Call("new", <<TestSize>>, Ok(BoardNew(TestSize)))

(* The player of a game on the board of tests::win_5: a caller who keeps   *)
(* going, keeps making legal moves while one exists and keeps taking the   *)
(* boards they return.                                                     *)
SpecPlay ==
  /\ InitPlay
  /\ [][Next]_vars
  /\ WF_vars(Next)
  /\ SF_vars(LegalMoveAny)
  /\ SF_vars(Unwrap)

TypeOK ==
  /\ board.size \in MIN_SIZE..MAX_SIZE
  /\ board.cells = board.size * board.size
  /\ DOMAIN board.values = 0..(board.cells - 1)
  /\ \A i \in DOMAIN board.values : board.values[i] \in 0..(U8_MOD - 1)
  /\ board.x \in 0..(board.size - 1)
  /\ board.y \in 0..(board.size - 1)
  /\ ret.op \in {"new", "none", "start_at", "next_move"}
  /\ ret.res.kind \in {"Ok", "Err", "None"}

(***************************************************************************)
(* Properties.                                                             *)
(***************************************************************************)

(* the boards a caller can hold: its own, and one returned by the last call *)
Boards == {board} \cup (IF ret.res.kind = "Ok" THEN {ret.res.board} ELSE {})

Filled(b) == {i \in DOMAIN b.values : b.values[i] # 0}

SameExceptCell(b1, b2, x, y) ==
  /\ b1.size = b2.size
  /\ b1.cells = b2.cells
  /\ DOMAIN b1.values = DOMAIN b2.values
  /\ \A i \in DOMAIN b1.values : i # y * b1.size + x => b1.values[i] = b2.values[i]

(* C1: for every size s in [5,16] and every cell (x,y) of a fresh          *)
(* Board::new(s), start_at(x,y) succeeds and the returned board is started, *)
(* holds 1 at (x,y) and has score 1.                                       *)
C1_StartAtSucceeds ==
  [][\A x \in 0..(board.size - 1), y \in 0..(board.size - 1) :
       (ret.op = "new" /\ board.size \in 5..16 /\ StartAt(x, y))
         => /\ ret'.res.kind = "Ok"
            /\ is_started(ret'.res.board)
            /\ value_at(ret'.res.board, x, y) = 1
            /\ score(ret'.res.board) = 1]_vars

(* C2: a successful next_move(d) places the score before the call plus 1   *)
(* at the target of valid_move(d), moves the cursor there, leaves every    *)
(* other cell as it was and raises the score by 1.                         *)
C2_NextMovePlaces ==
  [][\A d \in Direction :
       (ret'.res.kind = "Ok" /\ NextMove(d))
         => LET t == valid_move(board, d)
                nb == ret'.res.board
            IN  /\ is_started(board)
                /\ t.some
                /\ value_at(nb, t.x, t.y) = score(board) + 1
                /\ nb.x = t.x
                /\ nb.y = t.y
                /\ SameExceptCell(board, nb, t.x, t.y)
                /\ score(nb) = score(board) + 1]_vars

C2_Witness ==
  /\ ret.op = "next_move"
  /\ ret.res.kind = "Ok"
  /\ score(ret.res.board) = score(board) + 1
  /\ score(board) >= 3

(* C3: in every reachable board the nonzero cells hold exactly the labels  *)
(* 1..score(), each in exactly one cell, so score() is the number of       *)
(* filled cells.                                                           *)
C3_LabelsContiguous ==
  \A b \in Boards :
    /\ \A v \in 1..score(b) :
         Cardinality({i \in DOMAIN b.values : b.values[i] = v}) = 1
    /\ \A i \in Filled(b) : b.values[i] \in 1..score(b)
    /\ Cardinality(Filled(b)) = score(b)

C3_Witness == score(board) = 12 /\ ret.op = "next_move" /\ ret.res.kind = "Ok"

(* C4: a reachable board is started exactly when a label has been placed   *)
(* (score() >= 1), and the cursor of a started board holds the highest     *)
(* label.                                                                  *)
C4_StartedCursor ==
  \A b \in Boards :
    /\ is_started(b) <=> score(b) >= 1
    /\ is_started(b) => value_at(b, b.x, b.y) = score(b)

C4_Witness == is_started(board) /\ score(board) = 7 /\ Idle

(* C5: next_move(d) on a board that is not started fails with NotStarted,  *)
(* for every direction d, and the board is unchanged.                      *)
C5_NotStarted ==
  [][\A d \in Direction :
       (~is_started(board) /\ NextMove(d))
         => /\ ret'.res = Err("NotStarted")
            /\ board' = board]_vars

C5_Witness ==
  /\ ret.op = "next_move"
  /\ ret.res = Err("NotStarted")
  /\ ~is_started(board)
  /\ score(board) = 0

(* the target of direction dir is off the board or already labelled *)
OffBoardOrLabelled(b, dir) ==
  LET t == Target(b.x, b.y, dir)
  IN  \/ t[1] < 0 \/ t[1] >= b.size
      \/ t[2] < 0 \/ t[2] >= b.size
      \/ value_at(b, t[1], t[2]) # 0

(* C6: on a started board, next_move(d) towards a target off the board or  *)
(* already labelled fails with InvalidDirection and the board is unchanged. *)
C6_InvalidDirection ==
  [][\A d \in Direction :
       (ret'.op = "next_move" /\ is_started(board)
          /\ OffBoardOrLabelled(board, d) /\ NextMove(d))
         => /\ ~valid_move(board, d).some
            /\ ret'.res = Err("InvalidDirection")
            /\ board' = board]_vars

(* a started board with a labelled cell in reach, and a refused move *)
C6_Witness ==
  /\ ret.op = "next_move"
  /\ ret.res = Err("InvalidDirection")
  /\ is_started(board)
  /\ \E d \in Direction :
       LET t == Target(board.x, board.y, d)
       IN  /\ t[1] \in 0..(board.size - 1)
           /\ t[2] \in 0..(board.size - 1)
           /\ value_at(board, t[1], t[2]) # 0

(* C7, as claimed: a blocked board is started, has no possible move and is *)
(* not won.                                                                *)
C7_BlockedNotWon ==
  \A b \in Boards :
    is_blocked(b)
      => is_started(b) /\ Len(possible_moves(b)) = 0 /\ ~is_won(b)

(* C7, amended: a blocked board is started and has no possible move, and   *)
(* it is not won unless every cell is labelled.                            *)
C7_BlockedAmended ==
  \A b \in Boards :
    is_blocked(b)
      => /\ is_started(b)
         /\ Len(possible_moves(b)) = 0
         /\ (is_won(b) => Filled(b) = DOMAIN b.values)

(* a stuck board: blocked with empty cells left *)
C7_Witness ==
  /\ is_blocked(board)
  /\ Filled(board) # DOMAIN board.values
  /\ ~is_won(board)

(* C8: a won board is also blocked: it has no possible move.               *)
C8_WonIsBlocked ==
  \A b \in Boards :
    is_won(b) => is_blocked(b) /\ Len(possible_moves(b)) = 0

C8_Witness == is_won(board) /\ Idle

(* The solved grid of tests::win_5, row by row, and the number of possible *)
(* moves before each of its moves.                                         *)
Win5Grid ==
  << 1, 24, 14,  2, 25,
    16, 21,  5,  8, 20,
    13, 10, 18, 23, 11,
     4,  7, 15,  3,  6,
    17, 22, 12,  9, 19>>

Win5Counts ==
  <<3, 2, 2, 1, 2,
    2, 2, 2, 2, 1,
    2, 1, 2, 1, 2,
    1, 1, 2, 2, 1,
    1, 1, 1, 1>>

(* the grid with the labels 1..n only, the cursor on label n *)
Win5Board(n) ==
  LET k == CHOOSE j \in 1..25 : Win5Grid[j] = n
  IN  [size   |-> 5,
       cells  |-> 25,
       values |-> [i \in 0..24 |-> IF Win5Grid[i + 1] <= n THEN Win5Grid[i + 1] ELSE 0],
       x      |-> (k - 1) % 5,
       y      |-> (k - 1) \div 5]

(* C9: on a 5x5 board started at (0,0) the 24 moves of the scenario each   *)
(* succeed; before the i-th move the score is i, the board is neither won  *)
(* nor blocked and the number of possible moves is the i-th of the list;   *)
(* the final board is the solved grid, won, blocked, with score 25 and no  *)
(* possible move.                                                          *)
C9_Win5 ==
  /\ (ret.op = "new" /\ board.size = 5)
       => start_at(board, 0, 0) = Ok(Win5Board(1))
  /\ \A i \in 1..24 :
       board = Win5Board(i)
         => /\ score(board) = i
            /\ ~is_won(board)
            /\ ~is_blocked(board)
            /\ Len(possible_moves(board)) = Win5Counts[i]
            /\ next_move(board, TestMoves[i]) = {Ok(Win5Board(i + 1))}
  /\ board = Win5Board(25)
       => /\ is_won(board)
          /\ score(board) = 25
          /\ is_blocked(board)
          /\ Len(possible_moves(board)) = 0

C9_Witness == board = Win5Board(25) /\ [i \in 1..25 |-> board.values[i - 1]] = Win5Grid

(* C10: for every size s in [5,16] the fresh board Board::new(s) has s*s   *)
(* cells, score 0, is not started, not won, not blocked and has no         *)
(* possible move.                                                          *)
C10_FreshBoard ==
  \A s \in 5..16 :
    (ret.op = "new" /\ ret.arg = <<s>>)
      => /\ board.cells = s * s
         /\ score(board) = 0
         /\ ~is_started(board)
         /\ ~is_won(board)
         /\ ~is_blocked(board)
         /\ possible_moves(board) = <<>>

C10_Witness == ret.op = "new" /\ ret.arg = <<16>> /\ board.cells = 256


(* the eight offsets of a move: 3 along one axis, or 2 along both *)
C11_Offsets ==
  {<<3, 0>>, <<-3, 0>>, <<0, 3>>, <<0, -3>>,
   <<2, 2>>, <<2, -2>>, <<-2, 2>>, <<-2, -2>>}

C11_InBounds(b) ==
  {o \in C11_Offsets :
     /\ b.x + o[1] \in 0..(b.size - 1)
     /\ b.y + o[2] \in 0..(b.size - 1)}

(* C11: right after a successful start_at(x,y) on a fresh board the number *)
(* of possible moves is the number of the 8 offset targets inside the      *)
(* board: 8 for a cell at distance >= 3 from every edge, fewer otherwise.  *)
C11_MovesAfterStart ==
  (ret.op = "start_at" /\ ret.res.kind = "Ok" /\ score(board) = 0)
    => LET nb == ret.res.board
           n == Len(possible_moves(nb))
           inner == /\ nb.x >= 3 /\ nb.x <= nb.size - 1 - 3
                    /\ nb.y >= 3 /\ nb.y <= nb.size - 1 - 3
       IN  /\ n = Cardinality(C11_InBounds(nb))
           /\ inner => (n = 8 /\ nb.size >= 7)
           /\ ~inner => n < 8

C11_Witness ==
  /\ ret.op = "start_at"
  /\ ret.res.kind = "Ok"
  /\ score(board) = 0
  /\ Len(possible_moves(ret.res.board)) = 8

(* the offset of each direction, in the order of the enumeration *)
C12_Order ==
  <<"Down", "DownRight", "Right", "UpRight", "Up", "UpLeft", "Left", "DownLeft">>

C12_Offset(d) ==
  CASE d = "Down"      -> <<0, 3>>
    [] d = "DownRight" -> <<2, 2>>
    [] d = "Right"     -> <<3, 0>>
    [] d = "UpRight"   -> <<2, -2>>
    [] d = "Up"        -> <<0, -3>>
    [] d = "UpLeft"    -> <<-2, -2>>
    [] d = "Left"      -> <<-3, 0>>
    [] d = "DownLeft"  -> <<-2, 2>>

C12_Open(b, d) ==
  LET tx == b.x + C12_Offset(d)[1]
      ty == b.y + C12_Offset(d)[2]
  IN  /\ tx \in 0..(b.size - 1)
      /\ ty \in 0..(b.size - 1)
      /\ b.values[ty * b.size + tx] = 0

(* C12: possible_moves() is exactly the directions whose target is inside  *)
(* the board and empty, in the order Down, DownRight, Right, UpRight, Up,  *)
(* UpLeft, Left, DownLeft; it is empty on a board that is not started, and *)
(* a target left of column 0 or above row 0 is never accepted.             *)
C12_PossibleMoves ==
  \A b \in Boards :
    /\ possible_moves(b) =
         IF b.values[b.y * b.size + b.x] = 0
         THEN <<>>
         ELSE SelectSeq(C12_Order, LAMBDA d : C12_Open(b, d))
    /\ \A d \in Direction :
         valid_move(b, d).some
           => /\ b.x + C12_Offset(d)[1] >= 0
              /\ b.y + C12_Offset(d)[2] >= 0
              /\ valid_move(b, d).x = b.x + C12_Offset(d)[1]
              /\ valid_move(b, d).y = b.y + C12_Offset(d)[2]

(* a started board near the left edge, with a labelled cell in reach and   *)
(* two moves left                                                          *)
C12_Witness ==
  /\ is_started(board)
  /\ board.x < 2
  /\ Len(possible_moves(board)) = 2
  /\ \E d \in Direction :
       LET tx == board.x + C12_Offset(d)[1]
           ty == board.y + C12_Offset(d)[2]
       IN  /\ tx \in 0..(board.size - 1)
           /\ ty \in 0..(board.size - 1)
           /\ board.values[ty * board.size + tx] # 0

C13_Fresh(n) ==
  [size |-> n, cells |-> n * n, values |-> [i \in 0..(n * n - 1) |-> 0],
   x |-> 0, y |-> 0]

(* C13: Board::new(s) is the board of Board::new(5) for s < 5 and the      *)
(* board of Board::new(16) for s > 16: same size, cells, all-zero grid and *)
(* cursor (0,0).                                                           *)
C13_Clamped ==
  ret.op = "new"
    => LET s == ret.arg[1]
       IN  /\ s < 5 => (board = BoardNew(5) /\ board = C13_Fresh(5))
           /\ s > 16 => (board = BoardNew(16) /\ board = C13_Fresh(16))

C13_Witness == ret.op = "new" /\ ret.arg[1] > 16 /\ board.size = 16

(* the values and coordinates set_value is applied to on a board: the     *)
(* u8 values around each of its checks, a corner, the cursor, the last     *)
(* cell and one past the edge                                              *)
C14_Values(b) ==
  {0, 1, score(b), score(b) + 1, b.cells, b.cells + 1} \cap (0..255)

C14_Coords(b) == {0, b.x, b.y, b.size - 1, b.size}

C14_Expected(b, x, y, v) ==
  IF x \notin 0..(b.size - 1) \/ y \notin 0..(b.size - 1) THEN Err("OutOfRange")
  ELSE IF v < 1 THEN Err("NonPositiveValue")
  ELSE IF v <= score(b) THEN Err("ValueAlreadyUsed")
  ELSE IF v > b.size * b.size THEN Err("ValueTooLarge")
  ELSE IF b.values[y * b.size + x] # 0 THEN Err("CellOccupied")
  ELSE Ok([b EXCEPT !.x = x, !.y = y, !.values[y * b.size + x] = v])

(* C14: set_value(x,y,value) reports the first failing check of OutOfRange, *)
(* NonPositiveValue, ValueAlreadyUsed (value <= score()), ValueTooLarge     *)
(* (value > size*size), CellOccupied, and succeeds exactly when none of    *)
(* them fails, for every size in [5,16].                                   *)
C14_CheckOrder ==
  board.size \in 5..16
    => \A x \in C14_Coords(board), y \in C14_Coords(board), v \in C14_Values(board) :
         set_value(board, x, y, v) = C14_Expected(board, x, y, v)

(* C14 on the sizes whose cell count fits a u8 *)
C14_CheckOrderBelow16 ==
  board.size \in 5..15
    => \A x \in C14_Coords(board), y \in C14_Coords(board), v \in C14_Values(board) :
         set_value(board, x, y, v) = C14_Expected(board, x, y, v)

(* C15: once a cell holds a nonzero label it holds the same label in      *)
(* every later board: no operation clears or overwrites a labelled cell.   *)
C15_LabelsKept ==
  [][/\ DOMAIN board'.values = DOMAIN board.values
     /\ \A i \in DOMAIN board.values :
          board.values[i] # 0 => board'.values[i] = board.values[i]
     /\ (ret'.res.kind = "Ok" /\ ret'.op # "new")
          => \A i \in DOMAIN board.values :
               board.values[i] # 0 => ret'.res.board.values[i] = board.values[i]]_vars

(* a board that has taken over several successors *)
C15_Witness == ret.op = "none" /\ score(board) = 9 /\ is_started(board)

(* C17: a reachable board is won exactly when every cell is labelled, that *)
(* is when score() == cells, and then the cursor holds the label cells.    *)
C17_WonIffFull ==
  \A b \in Boards :
    /\ is_won(b) <=> Filled(b) = DOMAIN b.values
    /\ Filled(b) = DOMAIN b.values <=> score(b) = b.cells
    /\ is_won(b) => b.values[b.y * b.size + b.x] = b.size * b.size

(* the move that fills the last cell has just returned *)
C17_Witness ==
  /\ ret.op = "next_move"
  /\ ret.res.kind = "Ok"
  /\ is_won(ret.res.board)
  /\ ~is_won(board)
  /\ score(board) = board.cells - 1

(* C18: start_at and next_move never modify the board they are called on:  *)
(* the receiver keeps its cells and cursor, a successful call returns a    *)
(* separate board, and a caller who drops the returned board keeps its     *)
(* board, from which another call starts.                                  *)
C18_ReceiverKept ==
  [][/\ ret'.op \in {"start_at", "next_move"}
          => /\ board' = board
             /\ ret'.res.kind = "Ok" => ret'.res.board # board'
     /\ (ret.op \in {"start_at", "next_move"} /\ board' # board)
          => (ret.res.kind = "Ok" /\ board' = ret.res.board /\ ret'.op = "none")]_vars

(* a second successor of a board whose first successor was dropped *)
C18_Witness ==
  /\ ret.op = "next_move"
  /\ ret.res.kind = "Ok"
  /\ score(board) = 6
  /\ ret.res.board.x < board.x
  /\ Len(possible_moves(board)) >= 2

(* C19: start_at(x,y) on a started board fails for every (x,y), with       *)
(* OutOfRange off the board and ValueAlreadyUsed on it, empty cells        *)
(* included, and leaves the board unchanged.                               *)
C19_NoRestart ==
  /\ [](  (ret.op = "start_at" /\ is_started(board))
         => /\ ret.res \in {Err("OutOfRange"), Err("ValueAlreadyUsed")}
            /\ ret.res = Err("OutOfRange")
                 => \A x \in 0..board.size, y \in 0..board.size :
                      start_at(board, x, y) =
                        IF x >= board.size \/ y >= board.size
                        THEN Err("OutOfRange")
                        ELSE Err("ValueAlreadyUsed"))
  /\ [][(ret'.op = "start_at" /\ is_started(board)) => board' = board]_vars

C19_Witness ==
  /\ ret.op = "start_at"
  /\ ret.res = Err("ValueAlreadyUsed")
  /\ is_started(board)
  /\ Filled(board) # DOMAIN board.values

(* the boards from which the model plays every game to its end *)
C16_InPlay(b) == OnTestGame(b) /\ score(b) > TestOpening

(* C16: every game terminates: a successful next_move raises the score by  *)
(* exactly 1, the score never exceeds cells (so a game has at most         *)
(* cells - 1 moves), and a player who keeps making legal moves while one   *)
(* exists eventually holds a blocked board.                                *)
C16_Terminates ==
  /\ [](\A b \in Boards : score(b) <= b.cells)
  /\ [][(ret'.op = "next_move" /\ ret'.res.kind = "Ok")
          => score(ret'.res.board) = score(board) + 1]_vars
  /\ (C16_InPlay(board) ~> is_blocked(board))

(* a game in play that has ended stuck, short of a full board *)
C16_Witness ==
  /\ C16_InPlay(board)
  /\ is_blocked(board)
  /\ score(board) < board.cells
  /\ ret.op = "none"

====
